---- MODULE Spec2Model ----
(***************************************************************************)
(* The reStructuredText scanner of matthewdargan/rst, package scan         *)
(* (src/scan/scan.go lines 1-628 and src/scan/enum.go), as a state         *)
(* machine: the state is the Scanner struct, the one operation is          *)
(* Scanner.Next, and the caller is the loop of collect in the test file.   *)
(*                                                                         *)
(* Strings are Go strings: sequences of BYTES.  A byte is written as a     *)
(* one-character string when it is ASCII ("a", "\n") and as "xHH" when it   *)
(* is not ("xC2"); the backquote, which a TLA+ string cannot hold, is "BQ". *)
(* A rune is written as its ASCII character, or "U+HHHH".                   *)
(* Go offsets are 0-based and kept 0-based: s[i] is At(s, i) and s[a:b] is  *)
(* Slice(s, a, b).                                                          *)
(***************************************************************************)
EXTENDS Integers, Sequences, FiniteSets, TLC

\* A local variable of the code: F applied to the value of v.
Let(v, F(_)) == CHOOSE y \in {F(x) : x \in {v}} : TRUE

\* ------------------------------------------------------------------ bytes and runes

eof == "eof"
RuneError == "U+FFFD"

Digits == {"0", "1", "2", "3", "4", "5", "6", "7", "8", "9"}
UpperSeq == <<"A", "B", "C", "D", "E", "F", "G", "H", "I", "J", "K", "L", "M",
              "N", "O", "P", "Q", "R", "S", "T", "U", "V", "W", "X", "Y", "Z">>
LowerSeq == <<"a", "b", "c", "d", "e", "f", "g", "h", "i", "j", "k", "l", "m",
              "n", "o", "p", "q", "r", "s", "t", "u", "v", "w", "x", "y", "z">>
Upper == {UpperSeq[i] : i \in 1..26}
Lower == {LowerSeq[i] : i \in 1..26}
Punct == {"!", "\"", "#", "$", "%", "&", "'", "(", ")", "*", "+", ",", "-", ".", "/",
          ":", ";", "<", "=", ">", "?", "@", "[", "\\", "]", "^", "_", "BQ", "{", "|",
          "}", "~"}
AsciiSpace == {"\t", "\n", "\f", "\r", " "}
Ascii == Digits \cup Upper \cup Lower \cup Punct \cup AsciiSpace

\* The continuation bytes and the lead bytes of the multi-byte runes of the model.
Cont == {"x80", "x94", "xA0", "xA2"}
TwoByte == [x80 |-> "U+0080", x94 |-> "U+0094", xA0 |-> "U+00A0", xA2 |-> "U+00A2"]
ThreeByte ==
    [x80 |-> [x80 |-> "U+2000", x94 |-> "U+2014", xA0 |-> "U+2020", xA2 |-> "U+2022"],
     x94 |-> [x80 |-> "U+2500", x94 |-> "U+2514", xA0 |-> "U+2520", xA2 |-> "U+2522"],
     xA0 |-> [x80 |-> "U+2800", x94 |-> "U+2814", xA0 |-> "U+2820", xA2 |-> "U+2822"],
     xA2 |-> [x80 |-> "U+2880", x94 |-> "U+2894", xA0 |-> "U+28A0", xA2 |-> "U+28A2"]]

At(s, i) == s[i + 1]
Slice(s, a, b) == SubSeq(s, a + 1, b)
From(s, a) == SubSeq(s, a + 1, Len(s))

\* utf8.DecodeRuneInString(s[p:]) for p < len(s): the rune and its width in bytes.
\* A byte that starts no valid encoding decodes as RuneError of width 1.
DecodeRune(s, p) ==
    LET b == At(s, p)
        n == Len(s) - p
    IN  IF b \in Ascii THEN [r |-> b, w |-> 1]
        ELSE IF b = "xC2" /\ n >= 2 /\ At(s, p + 1) \in Cont
            THEN [r |-> TwoByte[At(s, p + 1)], w |-> 2]
        ELSE IF b = "xE2" /\ n >= 3 /\ At(s, p + 1) \in Cont /\ At(s, p + 2) \in Cont
            THEN [r |-> ThreeByte[At(s, p + 1)][At(s, p + 2)], w |-> 3]
        ELSE [r |-> RuneError, w |-> 1]

\* rune(b) for a byte b: the code point of the same number.
ByteRune(b) ==
    IF b \in Ascii THEN b
    ELSE CASE b = "x80" -> "U+0080"
           [] b = "x94" -> "U+0094"
           [] b = "xA0" -> "U+00A0"
           [] b = "xA2" -> "U+00A2"
           [] b = "xC2" -> "U+00C2"
           [] b = "xE2" -> "U+00E2"

\* unicode.IsSpace, IsDigit, IsLetter, IsLower on the runes of the model.
IsSpace(r) == r \in AsciiSpace \cup {"U+00A0", "U+2000"}
IsDigit(r) == r \in Digits
IsLetter(r) == r \in Upper \cup Lower \cup {"U+00C2", "U+00E2"}
IsLower(r) == r \in Lower \cup {"U+00E2"}
notSpace(c) == ~IsSpace(c)

\* The code point of an ASCII letter or digit, for the arithmetic r - 48.
Ord(r) ==
    IF r \in Digits THEN 48 + (CHOOSE d \in 0..9 : <<"0", "1", "2", "3", "4", "5", "6", "7", "8", "9">>[d + 1] = r)
    ELSE IF r \in Upper THEN 64 + (CHOOSE i \in 1..26 : UpperSeq[i] = r)
    ELSE 96 + (CHOOSE i \in 1..26 : LowerSeq[i] = r)

\* strings.ToUpper on one ASCII byte.
ToUpper(b) == IF b \in Lower THEN UpperSeq[CHOOSE i \in 1..26 : LowerSeq[i] = b] ELSE b

\* ------------------------------------------------------------------ package strings

HasPrefix(s, p) == Len(s) >= Len(p) /\ SubSeq(s, 1, Len(p)) = p
HasSuffix(s, p) == Len(s) >= Len(p) /\ SubSeq(s, Len(s) - Len(p) + 1, Len(s)) = p
TrimSuffix(s, p) == IF HasSuffix(s, p) THEN SubSeq(s, 1, Len(s) - Len(p)) ELSE s
Repeat(s, n) == [i \in 1..(n * Len(s)) |-> s[((i - 1) % Len(s)) + 1]]
Count(s, b) == Cardinality({i \in 1..Len(s) : s[i] = b})

\* strings.IndexAny(s, chars) for ASCII chars: the first byte offset, or -1.
IndexAny(s, chars) ==
    LET hits == {i \in 1..Len(s) : s[i] \in chars}
    IN  IF hits = {} THEN -1 ELSE (CHOOSE i \in hits : \A j \in hits : i <= j) - 1
ContainsAny(s, chars) == IndexAny(s, chars) >= 0

\* strings.IndexFunc(s, notSpace): the byte offset of the first rune that is
\* not a space, or -1; the string is decoded rune by rune.
RECURSIVE IndexNotSpaceFrom(_, _)
IndexNotSpaceFrom(s, p) ==
    IF p >= Len(s) THEN -1
    ELSE LET d == DecodeRune(s, p)
         IN  IF notSpace(d.r) THEN p ELSE IndexNotSpaceFrom(s, p + d.w)
IndexNotSpace(s) == IndexNotSpaceFrom(s, 0)

\* strings.ContainsFunc(s, unicode.IsSpace).
RECURSIVE ContainsSpaceFrom(_, _)
ContainsSpaceFrom(s, p) ==
    IF p >= Len(s) THEN FALSE
    ELSE LET d == DecodeRune(s, p)
         IN  IsSpace(d.r) \/ ContainsSpaceFrom(s, p + d.w)
ContainsSpace(s) == ContainsSpaceFrom(s, 0)

\* strings.TrimLeft(s, "-").
RECURSIVE TrimLeftDash(_)
TrimLeftDash(s) == IF Len(s) > 0 /\ s[1] = "-" THEN TrimLeftDash(Tail(s)) ELSE s

\* The byte offset at which the last rune of s starts (s non-empty): the
\* decoder reads backwards as utf8.DecodeLastRuneInString does.
LastRuneStart(s) ==
    LET n == Len(s)
    IN  IF n >= 3 /\ DecodeRune(s, n - 3).w = 3 THEN n - 3
        ELSE IF n >= 2 /\ DecodeRune(s, n - 2).w = 2 THEN n - 2
        ELSE n - 1

\* strings.TrimSpace(s): leading and trailing white space removed.
RECURSIVE TrimRightSpace(_)
TrimRightSpace(s) ==
    IF Len(s) = 0 THEN s
    ELSE LET a == LastRuneStart(s)
         IN  IF IsSpace(DecodeRune(s, a).r) THEN TrimRightSpace(Slice(s, 0, a)) ELSE s
TrimSpace(s) ==
    LET i == IndexNotSpace(s)
    IN  IF i < 0 THEN <<>> ELSE TrimRightSpace(From(s, i))

\* strings.SplitN(s, "\n", 2)[0]: s up to its first newline.
FirstLine(s) ==
    LET i == IndexAny(s, {"\n"})
    IN  IF i < 0 THEN s ELSE Slice(s, 0, i)

\* ------------------------------------------------------------------ the Scanner

\* The kinds of token (type Type).
Types == {"EOF", "Error", "BlankLine", "Space", "Title", "SectionAdornment",
          "Transition", "Paragraph", "Bullet", "Enum", "BlockQuote", "Attribution",
          "Comment", "HyperlinkStart", "HyperlinkPrefix", "HyperlinkQuote",
          "HyperlinkName", "HyperlinkSuffix", "HyperlinkURI", "InlineReferenceOpen",
          "InlineReferenceText", "InlineReferenceClose"}

\* The text of the token preset by Next, and of the one error of the scanner.
EOFText == <<"E", "O", "F">>
QuoteErrorText ==
    <<"e", "x", "p", "e", "c", "t", "e", "d", " ", "h", "y", "p", "e", "r", "l", "i", "n",
    "k", " ", "o", "r", " ", "i", "n", "l", "i", "n", "e", " ", "r", "e", "f", "e", "r",
    "e", "n", "c", "e", " ", "b", "e", "f", "o", "r", "e", " ", "q", "u", "o", "t", "e">>

\* The zero value of enum.
NoEnum == [typ |-> "none", val |-> 0, auto |-> FALSE]

\* New(name, r): the scanner over the bytes `bytes` of the reader.  The field r
\* is what the reader has not delivered yet.  pc is the position of the caller
\* of Next: "ret" when the last call has returned (or none was made), the name
\* of a loop when the call is inside a loop that can never exit.
New(bytes) ==
    [r |-> bytes, done |-> FALSE, input |-> <<>>, lastRune |-> "U+0000", lastWidth |-> 0,
     line |-> 1, pos |-> 0, start |-> 0,
     token |-> [Type |-> "EOF", Line |-> 0, Text |-> <<>>],
     types |-> <<"EOF", "EOF">>, indent |-> 0, lastMarkup |-> "EOF",
     lastEnum |-> NoEnum, pc |-> "ret"]

\* loadLine keeping every byte of the line.
keepCR(c) == TRUE

notCR(c) == c # "\r"

\* loadLine: bytes are read up to and including the next "\n"; reading past the
\* last byte sets done.  The line replaces the buffer when nothing is pending
\* and is appended to it otherwise.
loadLine(l) ==
    LET i == IndexAny(l.r, {"\n"})
        raw == IF i >= 0 THEN Slice(l.r, 0, i + 1) ELSE l.r
        buf == SelectSeq(raw, notCR)
        l1 == [l EXCEPT !.r = IF i >= 0 THEN From(l.r, i + 1) ELSE <<>>,
                        !.done = IF i >= 0 THEN l.done ELSE TRUE]
    IN  IF l.start = l.pos
        THEN [l1 EXCEPT !.input = buf, !.start = 0, !.pos = 0]
        ELSE [l1 EXCEPT !.input = l.input \o buf]

\* readRune: the scanner after the read (a line may have been loaded), the
\* rune at pos and its width; eof with width 0 at the end of the buffer.
readRune(l) ==
    Let(IF ~l.done /\ l.pos = Len(l.input) THEN loadLine(l) ELSE l, LAMBDA l1 :
        IF Len(l1.input) = l1.pos
        THEN [l |-> l1, r |-> eof, w |-> 0]
        ELSE Let(DecodeRune(l1.input, l1.pos), LAMBDA d : [l |-> l1, r |-> d.r, w |-> d.w]))

\* next: the rune read is lastRune of the scanner returned.
next(l) ==
    Let(readRune(l), LAMBDA rr :
        [rr.l EXCEPT !.lastRune = rr.r, !.lastWidth = rr.w, !.pos = rr.l.pos + rr.w])

\* peek: the scanner after the read, and the rune.
peek(l) == Let(readRune(l), LAMBDA rr : [l |-> rr.l, r |-> rr.r])

emit(l, t) ==
    LET l1 == IF t = "BlankLine"
              THEN [l EXCEPT !.line = l.line + 1, !.lastEnum = NoEnum]
              ELSE l
        l2 == IF l1.start = 0 /\ notSpace(ByteRune(At(l1.input, l1.start)))
              THEN [l1 EXCEPT !.indent = 0]
              ELSE l1
    IN  [l2 EXCEPT !.token = [Type |-> t, Line |-> l2.line,
                              Text |-> Slice(l2.input, l2.start, l2.pos)],
                   !.types = <<l2.types[2], t>>,
                   !.start = l2.pos]

\* ignore counting the newlines and leaving start where it is.
ignoreKeepStart(l) ==
    [l EXCEPT !.line = l.line + Count(Slice(l.input, l.start, l.pos), "\n")]

ignore(l) ==
    [l EXCEPT !.line = l.line + Count(Slice(l.input, l.start, l.pos), "\n"),
              !.start = l.pos]

errorf(l, text) ==
    [l EXCEPT !.token = [Type |-> "Error", Line |-> l.start, Text |-> text],
              !.start = 0, !.pos = 0, !.input = <<>>]

\* ------------------------------------------------------------------ the emitters

\* lexEndOfLine skipping whatever rune follows the item.
lexEndOfLineAnyRune(l, typ) ==
    Let(peek(emit(l, typ)), LAMBDA p :
        IF p.r # eof THEN ignore([p.l EXCEPT !.pos = p.l.pos + 1]) ELSE p.l)

lexEndOfLine(l, typ) ==
    Let(peek(emit(l, typ)), LAMBDA p :
        IF p.r = "\n" THEN ignore([p.l EXCEPT !.pos = p.l.pos + 1]) ELSE p.l)

RECURSIVE lexUntilTerminator(_, _)
lexUntilTerminator(l, typ) ==
    Let(peek(l), LAMBDA p :
        CASE p.r = eof -> emit(p.l, typ)
          [] p.r = "\n" -> lexEndOfLine(p.l, typ)
          [] OTHER -> lexUntilTerminator(next(p.l), typ))

\* lexBlankLine dropping the newline before the item is made.
lexBlankLineIgnored(l) == emit(ignore(l), "BlankLine")

lexBlankLine(l) ==
    emit(IF l.types[2] = "Comment" THEN [l EXCEPT !.lastMarkup = "EOF"] ELSE l,
         "BlankLine")

\* The loop of lexSpace: the scanner and the counter i at its exit.
RECURSIVE lexSpaceLoop(_, _)
lexSpaceLoop(l, i) ==
    Let(peek(l), LAMBDA p :
        IF IsSpace(p.r) THEN lexSpaceLoop(next(p.l), i + 1) ELSE [l |-> p.l, i |-> i])

\* lexSpace taking the rune that ends the run into the item.
lexSpaceOneMore(l, typ) ==
    Let(peek(lexSpaceLoop(l, 1).l), LAMBDA p :
        emit(IF p.r # eof THEN next(p.l) ELSE p.l, typ))

lexSpace(l, typ) ==
    Let(lexSpaceLoop(l, 1), LAMBDA e :
        emit(IF e.l.start = 0 \/ At(e.l.input, e.l.start - 1) = "\n"
             THEN [e.l EXCEPT !.indent = e.i]
             ELSE e.l,
             typ))

lexAttribution(l) == lexUntilTerminator([l EXCEPT !.indent = 0], "Attribution")

lexBullet(l) == lexEndOfLine([l EXCEPT !.lastMarkup = "Bullet"], "Bullet")

lexComment(l) == lexEndOfLine(next([l EXCEPT !.lastMarkup = "Comment"]), "Comment")

lexTransition(l) == lexUntilTerminator([l EXCEPT !.lastMarkup = "Transition"], "Transition")

lexSection(l) ==
    lexUntilTerminator([l EXCEPT !.lastMarkup = "SectionAdornment"], "SectionAdornment")

lexHyperlinkStart(l) ==
    emit(next([l EXCEPT !.lastMarkup = "HyperlinkStart"]), "HyperlinkStart")

anonHyperlinkPrefix == <<"_", "_", ":">>

lexHyperlinkPrefix(l) ==
    emit(IF HasPrefix(From(l.input, l.start), anonHyperlinkPrefix) THEN next(l) ELSE l,
         "HyperlinkPrefix")

\* lexInlineReferenceClose is defined before lexQuote, which continues with it.
lexInlineReferenceClose(l) ==
    lexEndOfLine(IF l.lastRune = "BQ" THEN next(l) ELSE l, "InlineReferenceClose")

\* lexQuote without the case of a quote after a space.
lexQuoteNoOpen(l) ==
    CASE l.types[2] \in {"HyperlinkPrefix", "HyperlinkName"} -> emit(l, "HyperlinkQuote")
      [] l.types[2] = "InlineReferenceText" -> lexInlineReferenceClose(l)
      [] OTHER -> errorf(l, QuoteErrorText)

lexQuote(l) ==
    CASE l.types[2] \in {"HyperlinkPrefix", "HyperlinkName"} -> emit(l, "HyperlinkQuote")
      [] l.types[2] = "Space" -> emit(l, "InlineReferenceOpen")
      [] l.types[2] = "InlineReferenceText" -> lexInlineReferenceClose(l)
      [] OTHER -> errorf(l, QuoteErrorText)

RECURSIVE lexHyperlinkName(_)
lexHyperlinkName(l) ==
    Let(peek(l), LAMBDA p :
        CASE p.r = ":" ->
               IF p.l.lastRune # "\\" /\ p.l.types[2] # "HyperlinkQuote"
               THEN emit(p.l, "HyperlinkName")
               ELSE lexHyperlinkName(next(p.l))
          [] p.r \in {"BQ", eof} -> emit(p.l, "HyperlinkName")
          [] p.r = "\n" -> lexEndOfLine(p.l, "HyperlinkName")
          [] OTHER -> lexHyperlinkName(next(p.l)))

\* In the case '_' with pos <= len(input)-3 the body of the loop does nothing:
\* the next iteration peeks the same rune in the same state, and so does every
\* later one.  The call never returns: pc stays in the loop.
RECURSIVE lexInlineReferenceText(_)
lexInlineReferenceText(l) ==
    Let(peek(l), LAMBDA p :
        CASE p.r = "_" ->
               IF p.l.pos > Len(p.l.input) - 3
               THEN emit(p.l, "InlineReferenceText")
               ELSE [p.l EXCEPT !.pc = "lexInlineReferenceText"]
          [] p.r \in {"BQ", eof} -> emit(p.l, "InlineReferenceText")
          [] p.r = "\n" -> lexEndOfLine(p.l, "InlineReferenceText")
          [] OTHER -> lexInlineReferenceText(next(p.l)))

lexTitle(l) == lexUntilTerminator([l EXCEPT !.lastMarkup = "Title"], "Title")

lexParagraph(l) ==
    lexUntilTerminator(IF l.start = 0 /\ l.indent = 0
                       THEN [l EXCEPT !.lastMarkup = "EOF"]
                       ELSE l,
                       "Paragraph")

RECURSIVE lexEnum(_)
lexEnum(l) ==
    Let(peek(l), LAMBDA p :
        IF p.r = "\n" THEN lexEndOfLine(p.l, "Enum")
        ELSE IF p.r = eof \/ IsSpace(p.r) THEN emit(p.l, "Enum")
        ELSE lexEnum(next(p.l)))

\* ------------------------------------------------------------------ the classifiers
\* A classifier returns [ok |-> its result, l |-> the scanner it leaves]: a probe
\* restores pos and lastWidth, and leaves what it loaded, lastRune and (isEnum)
\* lastEnum as they are.

comment == <<".", ".">>
hyperlinkStart == <<".", ".", " ", "_">>
anonHyperlinkStart == <<"_", "_", " ">>
bullets == {"*", "+", "-", "U+2022", "U+2023", "U+2043"}
adornments == Punct
emDash == <<"xE2", "x80", "x94">>
minSection == 2
minTransition == 4

Result(b, l) == [ok |-> b, l |-> l]

\* The loop `for r != eof && r != '\n' { r = l.next() }`: the scanner and r at its exit.
RECURSIVE skipLine(_, _)
skipLine(l, r) ==
    IF r # eof /\ r # "\n"
    THEN Let(next(l), LAMBDA l1 : skipLine(l1, l1.lastRune))
    ELSE [l |-> l, r |-> r]

Restore(l, saved) == [l EXCEPT !.pos = saved.pos, !.lastWidth = saved.lastWidth]

\* isBlockQuote without the test of lastMarkup.
isBlockQuoteAnyMarkup(l) ==
    IF l.types[1] \notin {"Paragraph", "Attribution", "Comment"}
       /\ (l.types[2] # "Paragraph" \/ (l.types[2] # "BlankLine" /\ l.indent > 0))
    THEN Result(FALSE, l)
    ELSE LET i == IndexNotSpace(From(l.input, l.start))
         IN  Result(i > 0 /\ i # l.indent, l)

isBlockQuote(l) ==
    IF l.lastMarkup # "EOF" THEN Result(FALSE, l)
    ELSE IF l.types[1] \notin {"Paragraph", "Attribution", "Comment"}
            /\ (l.types[2] # "Paragraph" \/ (l.types[2] # "BlankLine" /\ l.indent > 0))
    THEN Result(FALSE, l)
    ELSE LET i == IndexNotSpace(From(l.input, l.start))
         IN  Result(i > 0 /\ i # l.indent, l)

isAttribution(l) ==
    IF l.types[1] = "Attribution" /\ l.types[2] = "Space" THEN Result(TRUE, l)
    ELSE IF l.types[2] = "BlockQuote" THEN Result(FALSE, l)
    ELSE Let(From(l.input, l.start), LAMBDA s :
         IF ~HasPrefix(s, <<"-", "-">>) /\ ~HasPrefix(s, emDash) THEN Result(FALSE, l)
         ELSE Let(TrimSpace(TrimLeftDash(s)), LAMBDA t :
              IF Len(t) = 0 \/ ContainsAny(t, {"-"}) THEN Result(FALSE, l)
              ELSE Let(next(skipLine(l, "U+0000").l), LAMBDA l1 :
                   Let(IndexNotSpace(From(l1.input, l1.pos - 1)), LAMBDA i :
                       Result(i < 1 \/ i = l1.indent, Restore(l1, l))))))

isBullet(l, r) ==
    IF r \in bullets
    THEN Let(peek(l), LAMBDA p : Result(IsSpace(p.r), p.l))
    ELSE Result(FALSE, l)

isComment(l) ==
    LET s == From(l.input, l.start)
    IN  IF l.types[2] = "Title" THEN Result(FALSE, l)
        ELSE IF HasPrefix(s, hyperlinkStart) /\ Len(s) > Len(hyperlinkStart)
        THEN Result(FALSE, l)
        ELSE Result(HasPrefix(s, comment \o <<" ">>) \/ HasPrefix(s, comment \o <<"\n">>), l)

\* isTransition refusing the first line of the input.
isTransitionAfterBlankLine(l, r) ==
    IF ~(l.types[2] = "BlankLine"
         \/ (l.types[2] = "Space" /\ l.types[1] = "BlankLine"))
    THEN Result(FALSE, l)
    ELSE IF r \notin adornments THEN Result(FALSE, l)
    ELSE Let(TrimSuffix(From(l.input, l.start), <<"\n">>), LAMBDA s :
         IF Len(s) < minTransition \/ s # Repeat(<<r>>, Len(s)) THEN Result(FALSE, l)
         ELSE Let(peek(skipLine(l, r).l), LAMBDA p :
                  Result(p.r = eof \/ p.r = "\n", Restore(p.l, l))))

\* isTransition without the look at the line that follows.
isTransitionAnyNextLine(l, r) ==
    IF ~(l.types[2] \in {"EOF", "BlankLine"}
         \/ (l.types[2] = "Space" /\ l.types[1] = "BlankLine"))
    THEN Result(FALSE, l)
    ELSE IF r \notin adornments THEN Result(FALSE, l)
    ELSE Let(TrimSuffix(From(l.input, l.start), <<"\n">>), LAMBDA s :
         Result(Len(s) >= minTransition /\ s = Repeat(<<r>>, Len(s)), l))

isTransition(l, r) ==
    IF ~(l.types[2] \in {"EOF", "BlankLine"}
         \/ (l.types[2] = "Space" /\ l.types[1] = "BlankLine"))
    THEN Result(FALSE, l)
    ELSE IF r \notin adornments THEN Result(FALSE, l)
    ELSE Let(TrimSuffix(From(l.input, l.start), <<"\n">>), LAMBDA s :
         IF Len(s) < minTransition \/ s # Repeat(<<r>>, Len(s)) THEN Result(FALSE, l)
         ELSE Let(peek(skipLine(l, r).l), LAMBDA p :
                  Result(p.r = eof \/ p.r = "\n", Restore(p.l, l))))

\* isSection comparing only the first two bytes of the line.
isSectionPrefix(l, r) ==
    IF r \notin adornments THEN FALSE
    ELSE LET s == FirstLine(From(l.input, l.pos - 1))
         IN  Len(s) >= minSection /\ Slice(s, 0, minSection) = Repeat(<<r>>, minSection)

isSection(l, r) ==
    IF r \notin adornments THEN FALSE
    ELSE LET s == FirstLine(From(l.input, l.pos - 1))
         IN  Len(s) >= minSection /\ s = Repeat(<<r>>, Len(s))

isSectionAdornment(l, r) ==
    IF l.lastMarkup = "Title" THEN Result(TRUE, l)
    ELSE IF ~isSection(l, r) THEN Result(FALSE, l)
    ELSE IF l.types[2] # "BlankLine" THEN Result(TRUE, l)
    ELSE Let(peek(skipLine(l, r).l), LAMBDA p : Result(p.r # "\n", Restore(p.l, l)))

isHyperlinkStart(l) ==
    LET s == From(l.input, l.start)
    IN  Result(HasPrefix(s, hyperlinkStart) \/ HasPrefix(s, anonHyperlinkStart), l)

isHyperlinkPrefix(l) ==
    Let(peek(l), LAMBDA p :
        IF p.r \in {"\n", eof} THEN Result(FALSE, p.l)
        ELSE Result(Slice(p.l.input, 0, p.l.pos) = hyperlinkStart, p.l))

isHyperlinkName(l) ==
    CASE l.types[2] = "HyperlinkPrefix" ->
           Result(~HasSuffix(Slice(l.input, 0, l.pos), anonHyperlinkPrefix), l)
      [] l.types[2] = "HyperlinkQuote" -> Result(l.types[1] = "HyperlinkPrefix", l)
      [] l.types[2] = "Space" -> Result(l.types[1] = "HyperlinkName", l)
      [] OTHER -> Result(FALSE, l)

isHyperlinkSuffix(l) ==
    CASE l.types[2] \in {"HyperlinkPrefix", "HyperlinkName"} -> Result(TRUE, l)
      [] l.types[2] = "HyperlinkQuote" -> Result(l.types[1] = "HyperlinkName", l)
      [] OTHER -> Result(FALSE, l)

isUnderscoreSuffix(s) == HasSuffix(s, <<"_">>) /\ ~HasSuffix(s, <<"\\", "_">>)

\* isHyperlinkURI without the test of the token before the Space.
isHyperlinkURIAfterAnySpace(l) ==
    LET s == TrimSuffix(From(l.input, l.pos), <<"\n">>)
    IN  IF isUnderscoreSuffix(s) /\ ~ContainsSpace(s) THEN Result(FALSE, l)
        ELSE Result(l.types[2] = "Space", l)

isHyperlinkURI(l) ==
    LET s == TrimSuffix(From(l.input, l.pos), <<"\n">>)
    IN  IF isUnderscoreSuffix(s) /\ ~ContainsSpace(s) THEN Result(FALSE, l)
        ELSE IF l.types[1] \in {"HyperlinkStart", "HyperlinkSuffix", "HyperlinkURI"}
        THEN Result(l.types[2] = "Space", l)
        ELSE Result(FALSE, l)

isInlineReferenceText(l) ==
    CASE l.types[2] = "Space" ->
           Result(l.types[1] \in {"HyperlinkStart", "HyperlinkSuffix", "InlineReferenceText"}, l)
      [] l.types[2] = "InlineReferenceOpen" -> Result(TRUE, l)
      [] OTHER -> Result(FALSE, l)

isInlineReferenceClose(l) == Result(l.types[2] = "InlineReferenceText", l)

\* isTitle without putting pos and lastWidth back.
isTitleKeepsPos(l) ==
    Let(next(skipLine(l, "U+0000").l), LAMBDA l1 :
    Let(IndexNotSpace(From(l1.input, l1.pos)), LAMBDA i :
    Let(IF i > 0 THEN next([l1 EXCEPT !.pos = l1.pos + i]) ELSE l1, LAMBDA l2 :
        Result(isSection(l2, l2.lastRune), l2))))

isTitle(l) ==
    Let(next(skipLine(l, "U+0000").l), LAMBDA l1 :
    Let(IndexNotSpace(From(l1.input, l1.pos)), LAMBDA i :
    Let(IF i > 0 THEN next([l1 EXCEPT !.pos = l1.pos + i]) ELSE l1, LAMBDA l2 :
        Result(isSection(l2, l2.lastRune), Restore(l2, l)))))

\* ------------------------------------------------------------------ enumerators (enum.go)

enumSuffixes == {".", ")"}
roman == {"I", "i"}
ambiguousRoman == {"V", "X", "L", "C", "D", "M", "v", "x", "l", "c", "d", "m"}

\* enumSuffix with the offset of the first suffix character in the buffer.
enumSuffixInBuffer(l) ==
    LET i == IndexAny(l.input, enumSuffixes)
    IN  IF i < 0 THEN [i |-> i, ok |-> FALSE]
        ELSE IF l.pos + i + 1 < Len(l.input)
                /\ ~IsSpace(ByteRune(At(l.input, l.pos + i + 1)))
        THEN [i |-> i, ok |-> FALSE]
        ELSE [i |-> i, ok |-> TRUE]

\* enumSuffix: [i |-> the offset of the first suffix character after pos, ok |-> ...].
enumSuffix(l) ==
    LET i == IndexAny(From(l.input, l.pos), enumSuffixes)
    IN  IF i < 0 THEN [i |-> i, ok |-> FALSE]
        ELSE IF l.pos + i + 1 < Len(l.input)
                /\ ~IsSpace(ByteRune(At(l.input, l.pos + i + 1)))
        THEN [i |-> i, ok |-> FALSE]
        ELSE [i |-> i, ok |-> TRUE]

isRoman(l, r) ==
    IF r \in roman THEN TRUE
    ELSE IF r \in ambiguousRoman THEN l.lastEnum.typ \in {"upperRoman", "lowerRoman"}
    ELSE FALSE

\* The value of each roman digit (nums), and the strings numPattern matches:
\* M{0,4}(CM|CD|D?C{0,3})(XC|XL|L?X{0,3})(IX|IV|V?I{0,3}).
nums == [I |-> 1, V |-> 5, X |-> 10, L |-> 50, C |-> 100, D |-> 500, M |-> 1000]
RomanGroup(one, five, ten) ==
    {<<one, ten>>, <<one, five>>}
    \cup {f \o Repeat(<<one>>, n) : f \in {<<>>, <<five>>}, n \in 0..3}
numPattern ==
    {Repeat(<<"M">>, m) \o h \o t \o o :
        m \in 0..4, h \in RomanGroup("C", "D", "M"), t \in RomanGroup("X", "L", "C"),
        o \in RomanGroup("I", "V", "X")}

RECURSIVE SumNums(_)
SumNums(s) == IF s = <<>> THEN 0 ELSE nums[Head(s)] + SumNums(Tail(s))

\* parseRoman: the numeral is validated by numPattern, then its digits are summed.
parseRoman(s) ==
    LET u == [i \in 1..Len(s) |-> ToUpper(s[i])]
    IN  IF u \notin numPattern THEN [n |-> 0, ok |-> FALSE]
        ELSE [n |-> SumNums(u), ok |-> TRUE]

\* strconv.Atoi with its error dropped: 0 for a string that is not all digits.
RECURSIVE AtoiDigits(_, _)
AtoiDigits(s, acc) ==
    IF s = <<>> THEN acc ELSE AtoiDigits(Tail(s), 10 * acc + (Ord(Head(s)) - 48))
Atoi(s) == IF \A i \in 1..Len(s) : s[i] \in Digits THEN AtoiDigits(s, 0) ELSE 0

\* enum accepting an explicit enumerator after an automatic one.
enumAfterAuto(l, r, i) ==
    Let(Slice(l.input, l.pos - 1, l.pos + i), LAMBDA text :
    Let(parseRoman(text), LAMBDA rom :
    Let(IF IsDigit(r) THEN [typ |-> "arabic", val |-> Atoi(text), auto |-> FALSE]
        ELSE IF IsLetter(r) THEN
            IF isRoman(l, r)
            THEN [typ |-> IF IsLower(r) THEN "lowerRoman" ELSE "upperRoman",
                  val |-> rom.n, auto |-> FALSE]
            ELSE [typ |-> IF IsLower(r) THEN "lowerAlpha" ELSE "upperAlpha",
                  val |-> Ord(r) - 48, auto |-> FALSE]
        ELSE [typ |-> l.lastEnum.typ, val |-> l.lastEnum.val + 1, auto |-> TRUE],
        LAMBDA e :
    Let(IF IsDigit(r) THEN TRUE
        ELSE IF IsLetter(r) THEN (IF isRoman(l, r) THEN rom.ok ELSE i <= 0)
        ELSE r = "#" /\ i = 0,
        LAMBDA known :
        IF ~known THEN [e |-> NoEnum, ok |-> FALSE]
        ELSE IF e.typ = l.lastEnum.typ /\ e.val - l.lastEnum.val # 1
        THEN [e |-> e, ok |-> FALSE]
        ELSE [e |-> e, ok |-> TRUE]))))

\* enum interprets an enumeration up to index i: [e |-> the enum, ok |-> ...].
enum(l, r, i) ==
    Let(Slice(l.input, l.pos - 1, l.pos + i), LAMBDA text :
    Let(parseRoman(text), LAMBDA rom :
    Let(IF IsDigit(r) THEN [typ |-> "arabic", val |-> Atoi(text), auto |-> FALSE]
        ELSE IF IsLetter(r) THEN
            IF isRoman(l, r)
            THEN [typ |-> IF IsLower(r) THEN "lowerRoman" ELSE "upperRoman",
                  val |-> rom.n, auto |-> FALSE]
            ELSE [typ |-> IF IsLower(r) THEN "lowerAlpha" ELSE "upperAlpha",
                  val |-> Ord(r) - 48, auto |-> FALSE]
        ELSE [typ |-> l.lastEnum.typ, val |-> l.lastEnum.val + 1, auto |-> TRUE],
        LAMBDA e :
    Let(IF IsDigit(r) THEN TRUE
        ELSE IF IsLetter(r) THEN (IF isRoman(l, r) THEN rom.ok ELSE i <= 0)
        ELSE r = "#" /\ i = 0,
        LAMBDA known :
        IF l.lastEnum.auto /\ r # "#" THEN [e |-> NoEnum, ok |-> FALSE]
        ELSE IF ~known THEN [e |-> NoEnum, ok |-> FALSE]
        ELSE IF e.typ = l.lastEnum.typ /\ e.val - l.lastEnum.val # 1
        THEN [e |-> e, ok |-> FALSE]
        ELSE [e |-> e, ok |-> TRUE]))))

\* The second half of isEnum accepting any following line.
isEnumAnyNextLine(l, r) ==
    Let(skipLine(l, r), LAMBDA k : Result(TRUE, k.l))

\* The second half of isEnum: the line after the enumerator.
isEnumNextLine(l, r) ==
    Let(skipLine(l, r), LAMBDA k :
        IF k.r = eof THEN Result(TRUE, k.l)
        ELSE Let(next(k.l), LAMBDA l1 :
             Let(IF l1.lastRune = "(" THEN next(l1) ELSE l1, LAMBDA l2 :
                 IF ~IsDigit(l2.lastRune) /\ ~IsLetter(l2.lastRune) THEN Result(TRUE, l2)
                 ELSE Let(enumSuffix(l2), LAMBDA s :
                          IF ~s.ok THEN Result(FALSE, l2)
                          ELSE Result(enum(l2, l2.lastRune, s.i).ok, l2)))))

isEnum(l, r) ==
    IF l.types[1] = "BlankLine" /\ l.types[2] = "Paragraph" THEN Result(FALSE, l)
    ELSE Let(IF r = "(" THEN next(l) ELSE l, LAMBDA l1 :
         Let(IF r = "(" THEN l1.lastRune ELSE r, LAMBDA r1 :
         Let(enumSuffix(l1), LAMBDA s :
             IF ~s.ok THEN Result(FALSE, Restore(l1, l))
             ELSE Let(enum(l1, r1, s.i), LAMBDA e :
                  IF ~e.ok THEN Result(FALSE, Restore(l1, l))
                  ELSE Let(isEnumNextLine([l1 EXCEPT !.lastEnum = e.e], r1), LAMBDA res :
                           Result(res.ok, Restore(res.l, l)))))))

\* ------------------------------------------------------------------ the dispatcher

\* The cases of lexAny after eof and '\n', in their order: case k is tried
\* on the scanner the cases before it have left.
Case(k, l, r) ==
    CASE k = 1 -> isBlockQuote(l)
      [] k = 2 -> isAttribution(l)
      [] k = 3 -> Result(IsSpace(r), l)
      [] k = 4 -> isBullet(l, r)
      [] k = 5 -> isComment(l)
      [] k = 6 -> isTransition(l, r)
      [] k = 7 -> isSectionAdornment(l, r)
      [] k = 8 -> isHyperlinkStart(l)
      [] k = 9 -> isHyperlinkPrefix(l)
      [] k = 10 -> Result(r = "BQ", l)
      [] k = 11 -> isHyperlinkName(l)
      [] k = 12 -> isHyperlinkSuffix(l)
      [] k = 13 -> isHyperlinkURI(l)
      [] k = 14 -> isInlineReferenceText(l)
      [] k = 15 -> isInlineReferenceClose(l)
      [] k = 16 -> isTitle(l)
      [] k = 17 -> isEnum(l, r)
      [] k = 18 -> Result(TRUE, l)

Lex(k, l) ==
    CASE k = 1 -> lexSpace(l, "BlockQuote")
      [] k = 2 -> lexAttribution(l)
      [] k = 3 -> lexSpace(l, "Space")
      [] k = 4 -> lexBullet(l)
      [] k = 5 -> lexComment(l)
      [] k = 6 -> lexTransition(l)
      [] k = 7 -> lexSection(l)
      [] k = 8 -> lexHyperlinkStart(l)
      [] k = 9 -> lexHyperlinkPrefix(l)
      [] k = 10 -> lexQuote(l)
      [] k = 11 -> lexHyperlinkName(l)
      [] k = 12 -> lexEndOfLine(l, "HyperlinkSuffix")
      [] k = 13 -> lexUntilTerminator(l, "HyperlinkURI")
      [] k = 14 -> lexInlineReferenceText(l)
      [] k = 15 -> lexInlineReferenceClose(l)
      [] k = 16 -> lexTitle(l)
      [] k = 17 -> lexEnum(l)
      [] k = 18 -> lexParagraph(l)

\* [k |-> the first case from k on that holds, l |-> the scanner at that point].
RECURSIVE Select(_, _, _)
Select(k, l, r) ==
    Let(Case(k, l, r), LAMBDA c :
        IF c.ok THEN [k |-> k, l |-> c.l] ELSE Select(k + 1, c.l, r))

\* lexAny counting a line at the end of the input.
lexAnyCountsEOF(l) ==
    Let(next(l), LAMBDA l1 :
        IF l1.lastRune = eof THEN [l1 EXCEPT !.line = l1.line + 1]
        ELSE IF l1.lastRune = "\n" THEN lexBlankLine(l1)
        ELSE Let(Select(1, l1, l1.lastRune), LAMBDA c : Lex(c.k, c.l)))

lexAny(l) ==
    Let(next(l), LAMBDA l1 :
        IF l1.lastRune = eof THEN l1
        ELSE IF l1.lastRune = "\n" THEN lexBlankLine(l1)
        ELSE Let(Select(1, l1, l1.lastRune), LAMBDA c : Lex(c.k, c.l)))

\* Scanner.Next: the scanner when the call returns; the token returned is its
\* field token.
Scanner_Next(l) ==
    lexAny([l EXCEPT !.lastRune = eof, !.lastWidth = 0,
                     !.token = [Type |-> "EOF", Line |-> l.pos, Text |-> EOFText]])

\* ------------------------------------------------------------------ the caller

\* collect (the test file): Next is called until it returns EOF or Error; the
\* tokens returned, in order.  A call that does not return ends the list.
RECURSIVE collectFrom(_, _)
collectFrom(l, acc) ==
    Let(Scanner_Next(l), LAMBDA l1 :
        IF l1.pc # "ret" THEN acc
        ELSE IF l1.token.Type \in {"EOF", "Error"} THEN Append(acc, l1.token)
        ELSE collectFrom(l1, Append(acc, l1.token)))
collect(input) == collectFrom(New(input), <<>>)

\* ------------------------------------------------------------------ the state machine

\* The inputs: every string of at most MaxLen bytes over Alphabet, every
\* string of at most MaxBytes bytes over Bytes (valid and invalid UTF-8), and
\* every concatenation of at most MaxWords words of Words (hyperlink targets)
\* and of at most MaxLines words of Lines (titles, adornments, transitions,
\* comments and targets after other lines) and of at most MaxEnums words of
\* Enums (enumerators and the lines around them) and of at most MaxMarks
\* words of Marks (a comment, a quote error and blank lines) and of at most
\* MaxRomans words of Romans (roman and automatic enumerators).
MaxLen == 4
MaxBytes == 3
MaxWords == 4
MaxLines == 4
MaxEnums == 3
MaxMarks == 3
MaxRomans == 3
\* The number of calls of Next the caller makes after the first EOF or Error.
MaxAfter == 2

Alphabet == {"\n", " ", "a", ".", "BQ", "-", "\r"}
Bytes == {"xC2", "xA0", "xE2", "x80", "x94", " ", "\n", "-", "a"}
Words == {<<".", ".", " ", "_", "a">>, <<"_", "_", " ">>, <<"a">>, <<"a", "_">>,
          <<"BQ">>, <<" ">>, <<"-", "-", "_", "\n", " ">>}
Lines == {<<"-", "-", "-", "-">>, <<"-", "-">>, <<".", ".">>, <<"a", "\n">>, <<" ", " ">>,
          <<" ", "_">>, <<"\n">>}
Enums == {<<"1", ".", "\n">>, <<"2", ".", "\n">>, <<"3", ".", "\n">>, <<"a", "\n">>,
          <<"2", ".", "\n", "a", "\n">>, <<"1", ".", " ">>, <<"1", " ">>,
          <<"B", ".", "\n">>, <<"I", ".", "\n">>}
Marks == {<<".", ".", "\n">>, <<"BQ", "\n">>, <<"\n">>}
Romans == {<<"i", ".", "\n">>, <<"V", ".", "\n">>, <<"v", ".", "\n">>, <<"i", "i", "i", ".", "\n">>,
           <<"i", "v", ".", "\n">>, <<"1", ".", "\n">>, <<"#", ".", "\n">>, <<"3", ".", "\n">>}

\* The concatenation of the strings of the sequence ws.
RECURSIVE Flatten(_)
Flatten(ws) == IF ws = <<>> THEN <<>> ELSE Head(ws) \o Flatten(Tail(ws))

VARIABLES
    src,    \* the bytes given to New
    l,      \* the Scanner
    items,  \* the tokens Next has returned so far
    offs    \* for each of them, the offset in the input at which the call began

vars == <<src, l, items, offs>>

StripCR(s) == SelectSeq(s, LAMBDA c : c # "\r")

\* What the scanner has not yet returned: the pending part of the buffer and
\* what the reader still holds.  Consumed is the length of the input before it.
Pending(sc) == From(sc.input, sc.start) \o StripCR(sc.r)
Consumed(sc) == Len(StripCR(src)) - Len(Pending(sc))

Init ==
    /\ \/ \E n \in 0..MaxLen : src \in [1..n -> Alphabet]
       \/ \E n \in 0..MaxBytes : src \in [1..n -> Bytes]
       \/ \E n \in 0..MaxWords : \E ws \in [1..n -> Words] : src = Flatten(ws)
       \/ \E n \in 0..MaxLines : \E ws \in [1..n -> Lines] : src = Flatten(ws)
       \/ \E n \in 0..MaxEnums : \E ws \in [1..n -> Enums] : src = Flatten(ws)
       \/ \E n \in 0..MaxMarks : \E ws \in [1..n -> Marks] : src = Flatten(ws)
       \/ \E n \in 0..MaxRomans : \E ws \in [1..n -> Romans] : src = Flatten(ws)
    /\ l = New(src)
    /\ items = <<>>
    /\ offs = <<>>

\* The index of the first EOF or Error among the tokens, 0 if there is none,
\* and the number of tokens returned after it.
FirstEnd(its) ==
    LET ends == {i \in 1..Len(its) : its[i].Type \in {"EOF", "Error"}}
    IN  IF ends = {} THEN 0 ELSE CHOOSE i \in ends : \A j \in ends : i <= j
After(its) == IF FirstEnd(its) = 0 THEN 0 ELSE Len(its) - FirstEnd(its)

\* One call of Next by the caller.  A call that has not returned is never
\* followed by another.
CallNext ==
    /\ l.pc = "ret"
    /\ After(items) < MaxAfter
    /\ l' = Scanner_Next(l)
    /\ items' = IF l'.pc = "ret" THEN Append(items, l'.token) ELSE items
    /\ offs' = IF l'.pc = "ret" THEN Append(offs, Consumed(l)) ELSE offs
    /\ UNCHANGED src

Next == CallNext

Spec == Init /\ [][Next]_vars

\* ------------------------------------------------------------------ the properties

\* The tokens before the first EOF or Error, and tokens as (kind, text) pairs.
BeforeEnd(its) == IF FirstEnd(its) = 0 THEN its ELSE SubSeq(its, 1, FirstEnd(its) - 1)
KT(its) == [i \in 1..Len(its) |-> [Type |-> its[i].Type, Text |-> its[i].Text]]
LastItem == items[Len(items)]
\* The offset at which the i-th call ended.
EndOff(i) == IF i < Len(items) THEN offs[i + 1] ELSE Consumed(l)

\* C1: every call of Next returns (no emitter loop iterates without advancing
\* pos), so that repeated calls reach EOF or Error.
C1_EveryCallReturns == l.pc = "ret"

\* What can remain of the string s after the texts of its, in order, each
\* followed or not by one "\n".
RECURSIVE Rests(_, _)
Rests(s, its) ==
    IF its = <<>> THEN {s}
    ELSE IF ~HasPrefix(s, Head(its).Text) THEN {}
    ELSE LET s1 == From(s, Len(Head(its).Text))
         IN  Rests(s1, Tail(its))
             \cup (IF HasPrefix(s1, <<"\n">>) THEN Rests(Tail(s1), Tail(its)) ELSE {})

NoError == \A i \in 1..Len(items) : items[i].Type # "Error"

C3_EOFIsFinal ==
    [][(items # <<>> /\ LastItem.Type = "EOF")
        => /\ [l' EXCEPT !.token = l.token] = l
           /\ l'.pc = "ret"
           /\ l'.token.Type = "EOF"
           /\ l'.token.Text = EOFText
           /\ l'.types = l.types
           /\ l'.lastMarkup = l.lastMarkup
           /\ l'.lastEnum = l.lastEnum
           /\ l'.indent = l.indent
           /\ l'.line = l.line]_vars

\* Two calls made after the EOF of an input of several tokens.
C3_Witness ==
    /\ Len(items) >= 5
    /\ FirstEnd(items) = Len(items) - 2
    /\ \A i \in FirstEnd(items)..Len(items) : items[i].Type = "EOF"

\* C4: once Next has returned Error, every later call returns EOF.
C4_ErrorIsTerminal ==
    \A i \in 1..Len(items) : \A j \in 1..Len(items) :
        (i < j /\ items[i].Type = "Error") => items[j].Type = "EOF"

\* The case of lexAny in which lexQuote reports the error: the first rune of
\* the token is a backquote, none of the cases before lexQuote holds, and the
\* kind of the token before is none of the four lexQuote accepts.
QuoteError(sc) ==
    LET l1 == next([sc EXCEPT !.lastRune = eof, !.lastWidth = 0])
        r == l1.lastRune
    IN  /\ r = "BQ"
        /\ Select(1, l1, r).k = 10
        /\ sc.types[2] \notin {"HyperlinkPrefix", "HyperlinkName", "Space",
                               "InlineReferenceText"}

\* C5: a call of Next returns Error exactly when the token starts with a
\* backquote that no case of lexAny before lexQuote takes and types[1] is none
\* of HyperlinkPrefix, HyperlinkName, Space, InlineReferenceText; the text of
\* the token is then the message of lexQuote.
C5_ErrorOnlyFromQuote ==
    [][l'.pc = "ret"
        => /\ (l'.token.Type = "Error") <=> QuoteError(l)
           /\ (l'.token.Type = "Error") => l'.token.Text = QuoteErrorText]_vars

\* An Error returned after other tokens.
C5_Witness ==
    /\ Len(items) >= 2
    /\ LastItem.Type = "Error"
    /\ LastItem.Text = QuoteErrorText

\* C6: the Line of every token returned is 1 + the number of "\n" bytes of the
\* input before the first byte of the token.
C6_LineOfFirstByte ==
    \A i \in 1..Len(items) :
        items[i].Line = 1 + Count(Slice(StripCR(src), 0, offs[i]), "\n")

\* The tokens of a whole scan of src: up to the first EOF or Error, or up to the
\* call that does not return.
Scanned == FirstEnd(items) # 0 \/ l.pc # "ret"

\* C7: the (kind, text) tokens of an input are those of the input without its
\* "\r" bytes, and no text contains "\r".  (For an input without "\r" the two
\* scans are the same scan, so the comparison is made for the inputs with one.)
C7_CarriageReturnsInvisible ==
    /\ \A i \in 1..Len(items) : \A j \in 1..Len(items[i].Text) : items[i].Text[j] # "\r"
    /\ (After(items) = 0 /\ Scanned /\ \E i \in 1..Len(src) : src[i] = "\r")
           => KT(items) = KT(collect(StripCR(src)))

\* An input with a "\r" before a newline and a "\r" inside a line, scanned to EOF.
C7_Witness ==
    /\ FirstEnd(items) = Len(items)
    /\ Len(items) >= 3
    /\ LastItem.Type = "EOF"
    /\ \E i \in 1..(Len(src) - 1) : src[i] = "\r" /\ src[i + 1] = "\n"
    /\ \E i \in 1..(Len(src) - 1) : src[i] = "\r" /\ src[i + 1] # "\n"

\* The text t without the newline it may end with.
Chomp(t) == IF t # <<>> /\ t[Len(t)] = "\n" THEN SubSeq(t, 1, Len(t) - 1) ELSE t
SameButNewline(a, b) ==
    /\ Len(a) = Len(b)
    /\ \A i \in 1..Len(a) : a[i].Type = b[i].Type
    /\ \A i \in 1..(Len(a) - 1) : a[i].Text = b[i].Text
    /\ a # <<>> => Chomp(a[Len(a)].Text) = Chomp(b[Len(b)].Text)

\* C8: for an input whose last line is not empty and not ended by "\n", the
\* tokens returned before EOF have the kinds and texts of the tokens returned
\* for the input with the "\n" appended (the text of the last token is compared
\* up to the newline appended).
C8_FinalNewlineOptional ==
    (Scanned /\ After(items) = 0
     /\ StripCR(src) # <<>> /\ StripCR(src)[Len(StripCR(src))] # "\n")
        => SameButNewline(BeforeEnd(items), BeforeEnd(collect(src \o <<"\n">>)))

\* C9: a call of Next that returns a kind other than EOF and Error has
\* consumed at least one rune, and the text of its token is not empty.
C9_TokensConsume ==
    \A i \in 1..Len(items) :
        items[i].Type \notin {"EOF", "Error"}
            => /\ items[i].Text # <<>>
               /\ EndOff(i) >= offs[i] + Len(items[i].Text)
               /\ EndOff(i) > offs[i]

\* A scan of four tokens and more, a BlankLine among them.
C9_Witness ==
    /\ Len(items) >= 4
    /\ \E i \in 1..Len(items) : items[i].Type = "BlankLine"
    /\ \A i \in 1..(Len(items) - 1) : items[i].Type \notin {"EOF", "Error"}

\* C10 as stated: no Space token has a "\n" in its text.
C10_SpaceWithoutNewline ==
    \A i \in 1..Len(items) :
        items[i].Type = "Space" => \A j \in 1..Len(items[i].Text) : items[i].Text[j] # "\n"

\* The runes of a text.
RECURSIVE Runes(_, _)
Runes(t, p) ==
    IF p >= Len(t) THEN <<>>
    ELSE LET d == DecodeRune(t, p) IN <<d.r>> \o Runes(t, p + d.w)

\* C10: the text of a Space token is a run of whitespace runes that does not
\* start with "\n"; the run goes on through the newline that ends the line and
\* the whitespace after it, up to the first rune that is not whitespace.
C10_SpaceIsWhitespaceRun ==
    \A i \in 1..Len(items) :
        items[i].Type = "Space"
            => /\ items[i].Text # <<>>
               /\ items[i].Text[1] # "\n"
               /\ \A j \in 1..Len(Runes(items[i].Text, 0)) : IsSpace(Runes(items[i].Text, 0)[j])
               /\ LET rest == From(StripCR(src), offs[i] + Len(items[i].Text))
                  IN  rest # <<>> => ~IsSpace(DecodeRune(rest, 0).r)

\* A Space token with a newline inside its text, followed by another token.
C10_Witness ==
    \E i \in 1..(Len(items) - 1) :
        /\ items[i].Type = "Space"
        /\ \E j \in 1..(Len(items[i].Text) - 1) : items[i].Text[j] = "\n"
        /\ items[i + 1].Type # "EOF"

\* The input as the scanner sees it, and the lines of it: LineStart(o) is the
\* offset at which the line holding offset o starts, LineEnd(o) the offset of
\* the "\n" that ends it (the length of the input when nothing does).
In == StripCR(src)
LineStart(o) ==
    LET nl == {j \in 1..o : In[j] = "\n"}
    IN  IF nl = {} THEN 0 ELSE CHOOSE j \in nl : \A k \in nl : k <= j
LineEnd(o) ==
    LET nl == {j \in (o + 1)..Len(In) : In[j] = "\n"}
    IN  IF nl = {} THEN Len(In) ELSE (CHOOSE j \in nl : \A k \in nl : j <= k) - 1

\* C11: every BlankLine token has the text "\n" and is returned only for an
\* empty line: its newline is the first byte of its line.
C11_BlankLineIsEmptyLine ==
    \A i \in 1..Len(items) :
        items[i].Type = "BlankLine"
            => /\ items[i].Text = <<"\n">>
               /\ LineStart(offs[i]) = offs[i]

\* A text made of at least n copies of one adornment character and nothing else.
IsAdornmentRun(text, n) ==
    /\ Len(text) >= n
    /\ text[1] \in adornments
    /\ \A j \in 1..Len(text) : text[j] = text[1]

\* The line after the one that ends at offset e is empty or absent.
NextLineEmpty(e) ==
    \/ e >= Len(In)
    \/ e + 1 = Len(In)
    \/ In[e + 2] = "\n"

LineAt(o) == Slice(In, o, LineEnd(o))

\* C13: an adornment line of at least 4 identical adornment characters that is
\* the first line of the input or directly follows a BlankLine token, and
\* whose following line is empty or absent, is returned as Transition.  Checked
\* of the token last returned, in the state after its call.
C13_TransitionNotSection ==
    \A i \in {Len(items)} \ {0} :
        ( /\ LineStart(offs[i]) = offs[i]
          /\ IsAdornmentRun(LineAt(offs[i]), minTransition)
          /\ NextLineEmpty(LineEnd(offs[i]))
          /\ \/ i = 1
             \/ items[i - 1].Type = "BlankLine" )
            => /\ items[i].Type = "Transition"
               /\ items[i].Text = LineAt(offs[i])

\* The first line of the input is an adornment line followed by an empty
\* line, and it has been returned as Transition.
C13_Witness ==
    /\ Len(items) >= 1
    /\ offs[1] = 0
    /\ IsAdornmentRun(LineAt(0), minTransition)
    /\ LineEnd(0) + 2 <= Len(In)
    /\ In[LineEnd(0) + 2] = "\n"
    /\ items[1].Type = "Transition"

C15_TitleThenAdornment ==
    \A i \in 1..Len(items) :
        items[i].Type = "Title"
            => /\ i + 1 <= Len(items)
                   => items[i + 1].Type \in {"SectionAdornment", "Space"}
               /\ (i + 2 <= Len(items) /\ items[i + 1].Type = "Space")
                   => items[i + 2].Type = "SectionAdornment"

\* C16: the first token of a line that begins with ".." (and is not the
\* underline of a Title) is HyperlinkStart exactly when the line begins with
\* ".. _" followed by at least one more character; otherwise, when the ".."
\* is followed by a space or by the newline, it is Comment "..".
C16_CommentOrTarget ==
    \A i \in 1..Len(items) :
        ( /\ LineStart(offs[i]) = offs[i]
          /\ HasPrefix(LineAt(offs[i]), comment)
          /\ i > 1 => items[i - 1].Type # "Title" )
            => LET line == LineAt(offs[i])
                   target == HasPrefix(line, hyperlinkStart) /\ Len(line) > Len(hyperlinkStart)
               IN  /\ items[i].Type = "HyperlinkStart" <=> target
                   /\ ( /\ ~target
                        /\ \/ HasPrefix(line, comment \o <<" ">>)
                           \/ line = comment /\ LineEnd(offs[i]) < Len(In) )
                       => /\ items[i].Type = "Comment"
                          /\ items[i].Text = comment

\* C17: when HyperlinkStart ".." and Space " " have been returned for a line
\* that begins with ".. _" followed by at least one more character, the next
\* token returned is HyperlinkPrefix.
C17_PrefixAfterStart ==
    \A i \in 1..(Len(items) - 2) :
        ( /\ items[i].Type = "HyperlinkStart"
          /\ items[i].Text = comment
          /\ LineStart(offs[i]) = offs[i]
          /\ HasPrefix(LineAt(offs[i]), hyperlinkStart)
          /\ Len(LineAt(offs[i])) > Len(hyperlinkStart)
          /\ items[i + 1].Type = "Space"
          /\ items[i + 1].Text = <<" ">> )
            => items[i + 2].Type = "HyperlinkPrefix"

\* C18: every HyperlinkSuffix token has the text ":".
C18_SuffixIsColon ==
    \A i \in 1..Len(items) :
        items[i].Type = "HyperlinkSuffix" => items[i].Text = <<":">>

\* C19: every InlineReferenceClose token has the text "_" or "`_".
C19_CloseIsUnderscore ==
    \A i \in 1..Len(items) :
        items[i].Type = "InlineReferenceClose"
            => items[i].Text \in {<<"_">>, <<"BQ", "_">>}

\* The rest of the line from offset o on, and whether it holds white space.
RestOfLine(o) == Slice(In, o, LineEnd(o))
HasSpace(s) == \E j \in 1..Len(Runes(s, 0)) : IsSpace(Runes(s, 0)[j])

\* C20: no HyperlinkURI token is returned when the rest of the line ends with
\* an underscore that is not preceded by a backslash.  Stated for the rests
\* that have a character before the underscore and no white space in them
\* (the test "anonymous external hyperlink targets" expects a HyperlinkURI
\* for a rest with white space).
C20_NoURIBeforeUnderscore ==
    \A i \in 1..Len(items) :
        LET rest == RestOfLine(offs[i])
        IN  ( /\ Len(rest) >= 2
              /\ rest[Len(rest)] = "_"
              /\ rest[Len(rest) - 1] # "\\"
              /\ ~HasSpace(rest) )
                => items[i].Type # "HyperlinkURI"

\* The body of an enumerator text: the text without an opening parenthesis and
\* without its last byte.  An arabic enumerator has a body of decimal digits
\* and a suffix; its value is the number the body denotes.
EnumBody(text) ==
    LET t == IF text # <<>> /\ text[1] = "(" THEN Tail(text) ELSE text
    IN  IF t = <<>> THEN <<>> ELSE SubSeq(t, 1, Len(t) - 1)
IsArabicEnum(text) ==
    /\ text # <<>>
    /\ text[Len(text)] \in enumSuffixes
    /\ EnumBody(text) # <<>>
    /\ \A j \in 1..Len(EnumBody(text)) : EnumBody(text)[j] \in Digits

\* C21: of two Enum tokens returned one after the other, with no BlankLine
\* token between them and of the same kind, the second has the value of the
\* first plus 1.  Stated for the arabic kind, which the text determines.
C21_EnumSequence ==
    \A i, j \in 1..Len(items) :
        ( /\ i < j
          /\ items[i].Type = "Enum"
          /\ items[j].Type = "Enum"
          /\ \A k \in (i + 1)..(j - 1) : items[k].Type \notin {"Enum", "BlankLine"}
          /\ IsArabicEnum(items[i].Text)
          /\ IsArabicEnum(items[j].Text) )
            => Atoi(EnumBody(items[j].Text)) = Atoi(EnumBody(items[i].Text)) + 1

\* The length of the enumerator a line begins with, 0 if it begins with none:
\* an optional "(", a body of bytes of the set body, one suffix character,
\* and then white space or the end of the line.
EnumPrefixLen(line, body) ==
    LET ns == {n \in 1..Len(line) :
                  /\ line[n] \in enumSuffixes
                  /\ EnumBody(SubSeq(line, 1, n)) # <<>>
                  /\ \A j \in 1..Len(EnumBody(SubSeq(line, 1, n))) :
                         EnumBody(SubSeq(line, 1, n))[j] \in body
                  /\ n = Len(line) \/ line[n + 1] \in AsciiSpace}
    IN  IF ns = {} THEN 0 ELSE CHOOSE n \in ns : \A k \in ns : n <= k
ArabicPrefix(line) == SubSeq(line, 1, EnumPrefixLen(line, Digits))

\* The first byte of a line after an optional "(", eof for an empty line.
FirstAfterParen(line) ==
    LET t == IF line # <<>> /\ line[1] = "(" THEN Tail(line) ELSE line
    IN  IF t = <<>> THEN eof ELSE t[1]

\* The line after the one that holds offset o is absent.
NoNextLine(o) == LineEnd(o) + 1 >= Len(In)
NextLine(o) == LineAt(LineEnd(o) + 1)

\* The line nl can follow an arabic enumerator of value v: it begins with
\* neither a letter nor a digit, or with the arabic enumerator of value v + 1,
\* or with an enumerator whose body is made of letters.
CanFollow(nl, v) ==
    LET c == FirstAfterParen(nl)
    IN  /\ c \in Digits
            => /\ EnumPrefixLen(nl, Digits) > 0
               /\ Atoi(EnumBody(ArabicPrefix(nl))) = v + 1
        /\ c \in Upper \cup Lower => EnumPrefixLen(nl, Upper \cup Lower) > 0

C23_EnumTextForm ==
    \A i \in 1..Len(items) :
        items[i].Type = "Enum"
            => LET text == items[i].Text
                   body == EnumBody(text)
               IN  /\ text[Len(text)] \in enumSuffixes
                   /\ body # <<>>
                   /\ \/ \A j \in 1..Len(body) : body[j] \in Digits
                      \/ parseRoman(body).ok
                      \/ Len(body) = 1 /\ body[1] \in Upper \cup Lower
                      \/ body = <<"#">>
                   /\ ~HasSpace(text)

\* C24: when the enumerator before it is upper-alpha (a single capital letter
\* that is no roman digit, with no BlankLine in between), an "I" enumerator
\* that is returned as Enum leaves lastEnum.typ = upperAlpha.
C24_IAfterUpperAlpha ==
    LET n == Len(items)
    IN  ( /\ n >= 2
          /\ items[n].Type = "Enum"
          /\ EnumBody(items[n].Text) = <<"I">>
          /\ \E k \in 1..(n - 1) :
                 /\ items[k].Type = "Enum"
                 /\ Len(EnumBody(items[k].Text)) = 1
                 /\ EnumBody(items[k].Text)[1] \in Upper \ (roman \cup ambiguousRoman)
                 /\ \A j \in (k + 1)..(n - 1) : items[j].Type \notin {"Enum", "BlankLine"} )
            => l.lastEnum.typ = "upperAlpha"

\* C25: every BlockQuote token begins at the start of an input line; white
\* space that follows another token on the same line is never a BlockQuote.
C25_BlockQuoteAtLineStart ==
    \A i \in 1..Len(items) :
        items[i].Type = "BlockQuote" => LineStart(offs[i]) = offs[i]

\* C26: an Attribution token is returned only if a BlockQuote token was
\* returned by an earlier call.
C26_AttributionAfterBlockQuote ==
    \A i \in 1..Len(items) :
        items[i].Type = "Attribution" =>
            \E k \in 1..(i - 1) : items[k].Type = "BlockQuote"

\* The number of blanks a line begins with; a line of blanks only is empty.
LeadingBlanks(line) ==
    LET ns == {j \in 1..Len(line) : line[j] # " "}
    IN  IF ns = {} THEN Len(line) ELSE (CHOOSE j \in ns : \A k \in ns : j <= k) - 1
IsEmptyLine(line) == LeadingBlanks(line) = Len(line)

\* C27: the first line of an attribution (the text begins with "--" or an em
\* dash) is returned as Attribution only if the following line is absent,
\* empty, or indented by exactly the indent of the attribution line.  Stated
\* for a token that only blanks precede on its line and a following line of
\* ASCII bytes.
C27_AttributionNextLine ==
    \A i \in 1..Len(items) :
        LET o == offs[i]
            col == o - LineStart(o)
        IN  ( /\ items[i].Type = "Attribution"
              /\ HasPrefix(items[i].Text, <<"-", "-">>) \/ HasPrefix(items[i].Text, emDash)
              /\ LeadingBlanks(LineAt(LineStart(o))) = col
              /\ \A j \in 1..Len(NextLine(o)) : NextLine(o)[j] \in Ascii )
                => \/ NoNextLine(o)
                   \/ IsEmptyLine(NextLine(o))
                   \/ LeadingBlanks(NextLine(o)) = col

\* The tokens returned so far that are not EOF.
NonEOF == SelectSeq(items, LAMBDA t : t.Type # "EOF")

\* C28: at the return of every call of Next, the second entry of types is the
\* kind of the last token returned that is not EOF and the first entry the
\* kind of the one before it, EOF where there is none; an Error token shifts
\* the pair like every other token.
C28_TypesAreLastTwoKinds ==
    LET n == Len(NonEOF)
    IN  l.pc = "ret"
            => /\ l.types[2] = IF n >= 1 THEN NonEOF[n].Type ELSE "EOF"
               /\ l.types[1] = IF n >= 2 THEN NonEOF[n - 1].Type ELSE "EOF"

\* C29: 0 <= start <= pos <= len(input) in every state; the text of a token
\* that emit produced is the part of the input from the offset at which its
\* call began, of the length of the text; and when a call has returned,
\* start = pos.  Stated on the states between the calls of Next (and the
\* state of a call that does not return).
C29_StartPosWithinInput ==
    /\ 0 <= l.start /\ l.start <= l.pos /\ l.pos <= Len(l.input)
    /\ l.pc = "ret" => l.start = l.pos
    /\ \A i \in 1..Len(items) :
           items[i].Type \notin {"EOF", "Error"}
               => items[i].Text = Slice(In, offs[i], offs[i] + Len(items[i].Text))

\* A token was returned from the middle of a buffer that a lookahead had
\* extended by the next line: bytes before start and after pos remain.
C29_Witness ==
    /\ l.pc = "ret"
    /\ items # <<>>
    /\ LastItem.Type \notin {"EOF", "Error"}
    /\ 0 < l.start
    /\ l.pos < Len(l.input)
    /\ \E j \in 1..l.start : l.input[j] = "\n"

\* C30: when a call of Next has returned a token of some input line, indent
\* is the number of runes of the white space that line begins with, 0 if it
\* begins with another character.  Stated for lines of ASCII bytes that hold
\* a character other than a blank.
C30_IndentOfCurrentLine ==
    LET n == Len(items)
        line == LineAt(LineStart(offs[n]))
    IN  ( /\ l.pc = "ret"
          /\ n >= 1
          /\ items[n].Type \notin {"EOF", "Error"}
          /\ \A j \in 1..Len(line) : line[j] \in Ascii \ (AsciiSpace \ {" "})
          /\ ~IsEmptyLine(line) )
            => l.indent = LeadingBlanks(line)

\* C31: when a Paragraph token that begins at the first column of its line
\* has been returned, lastMarkup = EOF, whatever the line before it was.
C31_ParagraphClearsLastMarkup ==
    ( /\ l.pc = "ret"
      /\ items # <<>>
      /\ LastItem.Type = "Paragraph"
      /\ LineStart(offs[Len(items)]) = offs[Len(items)] )
        => l.lastMarkup = "EOF"

\* The call that is being made returns a BlockQuote token.
ReturnsBlockQuote ==
    /\ Len(items') = Len(items) + 1
    /\ items'[Len(items')].Type = "BlockQuote"

\* C32 as stated: a BlockQuote token is returned only when, at the start of
\* its call, lastMarkup = EOF, and the token before the last is Paragraph,
\* Attribution or Comment or (the last token is Paragraph and indent > 0),
\* and the rune count of its text is strictly greater than indent.
C32_BlockQuoteDeeperThanIndent ==
    [][ReturnsBlockQuote
        => /\ l.lastMarkup = "EOF"
           /\ \/ l.types[1] \in {"Paragraph", "Attribution", "Comment"}
              \/ l.types[2] = "Paragraph" /\ l.indent > 0
           /\ Len(Runes(items'[Len(items')].Text, 0)) > l.indent]_vars

\* C32 as the code has it: a BlockQuote token is returned only when, at the
\* start of its call, lastMarkup = EOF, and the token before the last is
\* Paragraph, Attribution or Comment or (the last token is Paragraph and
\* indent = 0), and the byte length of its text differs from indent.
C32_BlockQuoteContext ==
    [][ReturnsBlockQuote
        => /\ l.lastMarkup = "EOF"
           /\ \/ l.types[1] \in {"Paragraph", "Attribution", "Comment"}
              \/ l.types[2] = "Paragraph" /\ l.indent = 0
           /\ Len(items'[Len(items')].Text) > 0
           /\ Len(items'[Len(items')].Text) # l.indent]_vars

\* A BlockQuote returned right after the first token, a Paragraph: the token
\* before the last is none of the three kinds and indent is 0.
C32_Witness ==
    /\ Len(items) = 2
    /\ items[1].Type = "Paragraph"
    /\ items[2].Type = "BlockQuote"
    /\ l.indent = Len(items[2].Text)

\* The kind of the token returned k calls before the last one, EOF if none.
KindBefore(k) == IF Len(items) > k THEN items[Len(items) - k].Type ELSE "EOF"

ReturnsBlankLine ==
    /\ Len(items') = Len(items) + 1
    /\ items'[Len(items')].Type = "BlankLine"

\* C34: the call that returns a BlankLine token leaves lastEnum = {none, 0,
\* not auto}, adds exactly 1 to line, and sets lastMarkup to EOF if the token
\* returned before it was Comment and leaves lastMarkup unchanged otherwise.
C34_BlankLineEffect ==
    [][ReturnsBlankLine
        => /\ l'.lastEnum = NoEnum
           /\ l'.line = l.line + 1
           /\ l'.lastMarkup = IF items # <<>> /\ LastItem.Type = "Comment"
                              THEN "EOF"
                              ELSE l.lastMarkup]_vars

\* C35: lastEnum changes only in a call that returns an Enum token or a
\* BlankLine token; a call in which isEnum rejected the line leaves it as it
\* was.
C35_LastEnumOnlyByEnum ==
    [][l'.lastEnum # l.lastEnum
        => /\ Len(items') = Len(items) + 1
           /\ items'[Len(items')].Type \in {"Enum", "BlankLine"}]_vars

\* The call that is being made returns an Enum token; the first byte of its
\* text after an opening parenthesis.
ReturnsEnum ==
    /\ Len(items') = Len(items) + 1
    /\ items'[Len(items')].Type = "Enum"
FirstOfEnum == FirstAfterParen(items'[Len(items')].Text)

\* C36: an enumerator whose first letter is one of V, X, L, C, D, M (v, x, l,
\* c, d, m) is interpreted as a roman numeral only when lastEnum.typ is
\* upperRoman (lowerRoman) before it; after a roman enumerator of the other
\* case, or after none, it is interpreted as alpha.
C36_AmbiguousRomanSameCase ==
    [][(ReturnsEnum /\ FirstOfEnum \in ambiguousRoman)
        => LET up == FirstOfEnum \in Upper
           IN  l.lastEnum.typ # (IF up THEN "upperRoman" ELSE "lowerRoman")
                   => l'.lastEnum.typ = (IF up THEN "upperAlpha" ELSE "lowerAlpha")]_vars

\* An Enum token with the body "#" was returned and no BlankLine after it.
AutoPending ==
    \E k \in 1..Len(items) :
        /\ items[k].Type = "Enum"
        /\ EnumBody(items[k].Text) = <<"#">>
        /\ \A j \in (k + 1)..Len(items) : items[j].Type # "BlankLine"

SameCursor(a, b) ==
    /\ b.pos = a.pos
    /\ b.lastWidth = a.lastWidth
    /\ b.start = a.start
    /\ b.line = a.line
    /\ b.types = a.types
    /\ HasPrefix(b.input, a.input)

\* The classifiers that lexAny tries in turn from the k-th on, on the rune r,
\* each leave the cursor as it was.
RECURSIVE ProbesKeepCursor(_, _, _)
ProbesKeepCursor(k, sc, r) ==
    Let(Case(k, sc, r), LAMBDA c :
        /\ SameCursor(sc, c.l)
        /\ c.ok \/ ProbesKeepCursor(k + 1, c.l, r))

\* The scanner after the first rune of the next call of Next has been read.
AtFirstRune ==
    next([l EXCEPT !.lastRune = eof, !.lastWidth = 0,
                   !.token = [Type |-> "EOF", Line |-> l.pos, Text |-> EOFText]])

\* C38: classification never consumes input: every classifier that lexAny
\* tries returns with pos, lastWidth, start, line and types as they were on
\* entry, whatever it answers; it may only append the following lines to the
\* buffer.  Stated of the classifiers of every call of Next.
C38_ClassifiersKeepCursor ==
    [][l.pc = "ret"
          => Let(AtFirstRune, LAMBDA a :
                 a.lastRune \notin {eof, "\n"}
                     => ProbesKeepCursor(1, a, a.lastRune))]_vars

\* A call in which every classifier refused (the token is a Paragraph) and a
\* lookahead appended the following line to the buffer.
C38_Witness ==
    /\ l.pc = "ret"
    /\ items # <<>>
    /\ LastItem.Type = "Paragraph"
    /\ l.pos < Len(l.input)
    /\ Len(items) >= 2 => items[Len(items) - 1].Type = "BlankLine"

\* The scanner on which lexAny tries its case number target, if the cases
\* before it have all refused; the cases are tried from the k-th on.
RECURSIVE EntryOf(_, _, _, _)
EntryOf(target, k, sc, r) ==
    IF k = target THEN {sc}
    ELSE Let(Case(k, sc, r), LAMBDA c :
             IF c.ok THEN {} ELSE EntryOf(target, k + 1, c.l, r))

\* input[pos-1 : pos+i] of enum is a slice of the buffer, for the index i of
\* enumSuffix.
SliceOfEnumInRange(sc) ==
    Let(enumSuffix(sc), LAMBDA s :
        s.ok => /\ 0 <= sc.pos - 1
                /\ sc.pos - 1 <= sc.pos + s.i
                /\ sc.pos + s.i <= Len(sc.input))

\* The two calls of enum in isEnum: on the line itself and on the line after.
EnumInRange(sc, r) ==
    Let(IF r = "(" THEN next(sc) ELSE sc, LAMBDA l1 :
        /\ SliceOfEnumInRange(l1)
        /\ Let(skipLine(l1, l1.lastRune), LAMBDA k :
               k.r # eof
                   => Let(next(k.l), LAMBDA l2 :
                      Let(IF l2.lastRune = "(" THEN next(l2) ELSE l2, LAMBDA l3 :
                          (IsDigit(l3.lastRune) \/ IsLetter(l3.lastRune))
                              => SliceOfEnumInRange(l3)))))

\* 0 <= start <= pos <= len(input), and a token made by emit has a text that
\* is not empty.
CursorInRange ==
    /\ 0 <= l.start /\ l.start <= l.pos /\ l.pos <= Len(l.input)
    /\ (items # <<>> /\ LastItem.Type \notin {"EOF", "Error"}) => LastItem.Text # <<>>

\* When the call that follows has read its first rune, start < pos, and the
\* slices of both calls of enum in isEnum are slices of the buffer.
FirstRuneInRange ==
    l.pc = "ret"
        => Let(AtFirstRune, LAMBDA a :
               a.lastRune # eof
                   => /\ 0 <= a.start
                      /\ a.start < a.pos
                      /\ a.pos <= Len(a.input)
                      /\ a.lastRune # "\n"
                             => \A sc \in EntryOf(17, 1, a, a.lastRune) :
                                    EnumInRange(sc, a.lastRune))

\* C39: no step of Next reads the buffer outside 0..len(input).  Before and
\* after every call 0 <= start <= pos <= len(input); when the call has read
\* its first rune, 0 <= start < pos <= len(input), so that input[start]
\* (emit), input[start-1] for start > 0 (lexSpace) and input[pos-1:]
\* (isAttribution, isSection, with pos moved forward only) are in range; the
\* slice input[pos-1 : pos+i] of enum is in range in both calls of enum; and
\* every token made by emit has a text that is not empty.
C39_IndexesInRange ==
    [][CursorInRange /\ CursorInRange' /\ FirstRuneInRange]_vars

\* An input that begins with a byte that is no valid UTF-8 and ends in the
\* middle of a line was scanned to EOF.
C39_Witness ==
    /\ l.pc = "ret"
    /\ items # <<>>
    /\ LastItem.Type = "EOF"
    /\ src # <<>>
    /\ src[Len(src)] # "\n"
    /\ \E i \in 1..Len(src) : src[i] \in {"x80", "x94", "xA0"}
    /\ DecodeRune(src, 0).r = RuneError

\* The number a canonical roman numeral in capitals denotes: a digit before a
\* greater one is subtracted from it.
RECURSIVE RomanNumber(_)
RomanNumber(u) ==
    IF u = <<>> THEN 0
    ELSE IF Len(u) >= 2 /\ nums[u[1]] < nums[u[2]]
    THEN nums[u[2]] - nums[u[1]] + RomanNumber(SubSeq(u, 3, Len(u)))
    ELSE nums[u[1]] + RomanNumber(Tail(u))

\* C40: parseRoman returns the number a canonical roman numeral denotes, the
\* subtractive forms included: when an enumerator that begins with I or i and
\* is a canonical numeral has been returned as Enum, lastEnum.val is that
\* number; and the line "iv." directly after the Enum "iii." is an Enum.
C40_RomanNumeralValue ==
    LET n == Len(items)
        body == EnumBody(items[n].Text)
        u == [i \in 1..Len(body) |-> ToUpper(body[i])]
    IN  /\ ( /\ l.pc = "ret"
             /\ n >= 1
             /\ items[n].Type = "Enum"
             /\ body # <<>>
             /\ body[1] \in roman
             /\ u \in numPattern )
               => l.lastEnum.val = RomanNumber(u)
        /\ ( /\ n >= 2
             /\ items[n - 1].Type = "Enum"
             /\ items[n - 1].Text = <<"i", "i", "i", ".">>
             /\ LineStart(offs[n]) = offs[n]
             /\ HasPrefix(LineAt(offs[n]), <<"i", "v", ".">>) )
               => items[n].Type = "Enum"

====
